---- MODULE Spec2Model ----
(***************************************************************************)
(* Clinic scheduling service (assets/server): DatabaseService over the     *)
(* MongoDB collections medico, tipo_exame, paciente and consulta.          *)
(* Every store access of a service method is one atomic step of the        *)
(* calling process, so concurrent tool calls interleave between accesses.  *)
(*                                                                         *)
(* Representation of the strings the code handles:                         *)
(*   - a time 'HH:MM' is the pair <<h, m>>, a date 'YYYY-MM-DD' the triple *)
(*     <<y, m, d>>; strptime / strftime are ParseHM / FormatHM / DateOK;    *)
(*   - names, CPFs and search terms are sequences of characters;           *)
(*   - an absent key / Python None is NoneId where an id is expected and   *)
(*     None where a string is expected.                                    *)
(* The arguments of a call do not depend on the store, so an argument is   *)
(* drawn at the step of the call that first reads it: the date and time of *)
(* a booking when the document is built, the reason when the exam type is  *)
(* looked up.                                                              *)
(***************************************************************************)
EXTENDS Integers, Sequences, FiniteSets, TLC

VARIABLES tipos_exame, pacientes, consultas, now, pc, call, loc, ret, ncalls

vars == <<tipos_exame, pacientes, consultas, now, pc, call, loc, ret, ncalls>>

----------------------------------------------------------------------------
(* Bounds of the model *)

\* number of tool calls started in one behaviour
MaxCalls == 2
\* number of clock ticks (milliseconds that pass) in one behaviour
MaxClock == 1

\* the processes that call the tools
Procs == DOMAIN pc

----------------------------------------------------------------------------
(* Values *)

\* Python None (or an absent key) in the place of a string: no string of
\* characters equals it
None == <<"None">>
\* Python None (or an absent key) in the place of an id
NoneId == -1
\* truth value of an optional id ("if medico_id:")
Truthy(x) == x # NoneId /\ x # 0

\* models.py StatusConsulta
AGENDADA == "agendada"
CANCELADA == "cancelada"
CONCLUIDA == "concluida"
StatusConsulta == {AGENDADA, CANCELADA, CONCLUIDA}

\* services.py:98-99 and models.py:43-44
NOME_MEDICO_PADRAO == <<"N/A (Apenas Exame)">>
DESCRICAO_EXAME_PADRAO == <<"Consulta de Rotina">>

\* services.py:306 and services.py:75
PRIMEIRO_ID_CONSULTA == 123
PRIMEIRO_ID_PACIENTE == 101
\* services.py:310
DURACAO_MINUTOS == 30
\* services.py:55
TAMANHO_CPF == 11

\* the error raised by a call, by the raise statement that produced it
ValidationError == "ValidationError"
NotFoundError == "NotFoundError"
ConflictError == "ConflictError"
\* pymongo DuplicateKeyError that no handler catches (services.py:77)
DuplicateKeyError == "DuplicateKeyError"
\* pydantic's ValidationError raised by model_validate (a ValueError)
ModelValidationError == "ModelValidationError"

----------------------------------------------------------------------------
(* Characters and strings *)

Digits == {"0", "1", "2", "3", "4", "5", "6", "7", "8", "9"}

\* str.isdigit also accepts digit characters that are not decimal digits
OtherDigitChars == {"^2"}

Whitespace == {" "}

\* str.lower on the characters that occur in the model
Lower(c) ==
    CASE c = "A" -> "a" [] c = "D" -> "d" [] c = "E" -> "e" [] c = "I" -> "i"
      [] c = "J" -> "j" [] c = "M" -> "m" [] c = "O" -> "o" [] c = "R" -> "r"
      [] c = "S" -> "s" [] c = "T" -> "t" [] c = "X" -> "x"
      [] OTHER -> c

LowerStr(s) == [i \in 1..Len(s) |-> Lower(s[i])]

\* a regex made of literal characters and '.', matched at position k of s,
\* with the option "i"
MatchAt(re, s, k) ==
    /\ k + Len(re) - 1 <= Len(s)
    /\ \A i \in 1..Len(re) : re[i] = "." \/ Lower(re[i]) = Lower(s[k + i - 1])

\* {"$regex": re, "$options": "i"}: the regex matches somewhere in s
RegexSearch(re, s) == \E k \in 1..(Len(s) + 1) : MatchAt(re, s, k)

\* {"$regex": "^re$", "$options": "i"}: the regex matches all of s
RegexFull(re, s) == Len(re) = Len(s) /\ MatchAt(re, s, 1)

----------------------------------------------------------------------------
(* Reference data: scripts/db.py inserir_exemplos *)

Str_JoaoSilva == <<"D","r","."," ","J","o","a","o"," ","S","i","l","v","a">>
Str_MariaSouza == <<"D","r","a","."," ","M","a","r","i","a"," ","S","o","u","z","a">>
Str_ExameDeSangue == <<"E","x","a","m","e"," ","d","e"," ","S","a","n","g","u","e">>
Str_RaioX == <<"R","a","i","o","-","X">>

\* collection medico, in natural (insertion) order
MedicoIds == <<42, 58>>
medicos == (42 :> [nome |-> Str_JoaoSilva, crm |-> "12345", especialidade_id |-> 1])
        @@ (58 :> [nome |-> Str_MariaSouza, crm |-> "67890", especialidade_id |-> 2])

TiposExameSeed == (1 :> [descricao |-> Str_ExameDeSangue])
               @@ (2 :> [descricao |-> Str_RaioX])

CPF_Carlos == <<"1","1","1","2","2","2","3","3","3","4","4">>
CPF_Ana == <<"5","5","5","6","6","6","7","7","7","8","8">>

PacientesSeed == (101 :> [nome |-> "Carlos Silva", cpf |-> CPF_Carlos])
              @@ (102 :> [nome |-> "Ana Pereira", cpf |-> CPF_Ana])


\* the one appointment of inserir_exemplos (scripts/db.py:91-103); the store
\* outlives the service, so its status is any value of StatusConsulta
ConsultaSeed(st) ==
    [id |-> 123, paciente_id |-> 101, data |-> <<2025, 6, 10>>,
     hora_inicio |-> <<14, 0>>, duracao_minutos |-> 30, status |-> st,
     observacoes |-> <<"Primeira consulta">>, medico_id |-> 42,
     tipo_exame_id |-> 1, created_at |-> 0, updated_at |-> 0]

----------------------------------------------------------------------------
(* Inputs of the tool calls *)

Str_Silva == <<"s","i","l","v","a">>
Str_Dra == <<"D","R","A">>
Str_House == <<"h","o","u","s","e">>
NomesMedico == {Str_Silva, Str_Dra, Str_House}

Str_RAIOX == <<"R","A","I","O","-","X">>
Str_Tomografia == <<"T","o","m","o">>
NomesExame == {Str_RAIOX, Str_Tomografia}

Str_Raio == <<"r","a","i","o">>
Motivos == {Str_Raio, None}

CPF_CarlosFmt == <<"1","1","1",".","2","2","2",".","3","3","3","-","4","4">>
CPF_NovoFmt == <<" ","9","9","9",".","8","8","8",".","7","7","7","-","6","6">>
CPF_Curto == <<"1","2","3">>
CpfsBrutos == {CPF_CarlosFmt, CPF_NovoFmt, CPF_Curto}

NomesPaciente == {"Zeca"}

Datas == {<<2025, 6, 10>>, <<2025, 7, 15>>}
DataInvalida == <<2025, 13, 1>>
\* the (date, time) pairs that calls name: the slot of the seed appointment,
\* one that differs from it in the time only, one that differs in the date only
Slots == {<<<<2025, 6, 10>>, <<14, 0>>>>, <<<<2025, 6, 10>>, <<9, 30>>>>,
          <<<<2025, 7, 15>>, <<14, 0>>>>}
ConsultaIds == {123, 124}

----------------------------------------------------------------------------
(* Pure helpers of DatabaseService *)

RECURSIVE LStrip(_)
LStrip(s) == IF s # <<>> /\ Head(s) \in Whitespace THEN LStrip(Tail(s)) ELSE s

RECURSIVE RStrip(_)
RStrip(s) ==
    IF s # <<>> /\ s[Len(s)] \in Whitespace THEN RStrip(SubSeq(s, 1, Len(s) - 1)) ELSE s

\* cpf_bruto.replace(".", "").replace("-", "").strip()
LimparCpf(cpf_bruto) ==
    RStrip(LStrip(SelectSeq(cpf_bruto, LAMBDA c : c \notin {".", "-"})))

\* str.isdigit: non-empty and made of digit characters
IsDigit(s) == s # <<>> /\ \A i \in 1..Len(s) : s[i] \in Digits \cup OtherDigitChars

\* _limpar_e_validar_cpf returns (does not raise)
CpfValido(cpf_bruto) ==
    LET cpf_limpo == LimparCpf(cpf_bruto)
    IN  IsDigit(cpf_limpo) /\ Len(cpf_limpo) = TAMANHO_CPF

\* datetime.strptime(h, "%H:%M").time(), in minutes after midnight
ParseHM(h) == h[1] * 60 + h[2]

\* time.strftime("%H:%M")
FormatHM(t) == <<t \div 60, t % 60>>

\* datetime.strptime(d, "%Y-%m-%d") does not raise
DateOK(d) == d[2] \in 1..12 /\ d[3] \in 1..31

Max(S) == CHOOSE x \in S : \A y \in S : y <= x

\* find_one(sort=[("_id", -1)]) followed by "+ 1 if doc else seed"
NovoId(coll, seed) == IF DOMAIN coll = {} THEN seed ELSE Max(DOMAIN coll) + 1

\* PacientePorCpf as it would be if the query used the CPF with its
\* separators put back
PacientePorCpf_Formatado(cpf_limpo) ==
    LET fmt == SubSeq(cpf_limpo, 1, 3) \o <<".">> \o SubSeq(cpf_limpo, 4, 6) \o <<".">>
               \o SubSeq(cpf_limpo, 7, 9) \o <<"-">> \o SubSeq(cpf_limpo, 10, 11)
        ids == {i \in DOMAIN pacientes : pacientes[i].cpf = fmt}
    IN  IF ids = {} THEN NoneId ELSE Max(ids)

\* pacientes_collection.find_one({"cpf": cpf_limpo})
PacientePorCpf(cpf_limpo) ==
    LET ids == {i \in DOMAIN pacientes : pacientes[i].cpf = cpf_limpo}
    IN  IF ids = {} THEN NoneId ELSE Max(ids)

\* find_one over medico with a case-insensitive regex on nome: the first match
\* in natural order, or None
MedicoPorNome(nome_medico) ==
    LET ks == {k \in 1..Len(MedicoIds) : RegexSearch(nome_medico, medicos[MedicoIds[k]].nome)}
    IN  IF ks = {} THEN NoneId ELSE MedicoIds[CHOOSE k \in ks : \A j \in ks : k <= j]

\* find_one over tipo_exame with {"$regex": "^nome_exame$", "$options": "i"}
ExamePorNome(nome_exame) ==
    LET ids == {i \in DOMAIN tipos_exame : RegexFull(nome_exame, tipos_exame[i].descricao)}
    IN  IF ids = {} THEN NoneId ELSE CHOOSE i \in ids : \A j \in ids : i <= j

\* find_one over tipo_exame with {"$regex": motivo_consulta, "$options": "i"}
ExamePorMotivo(motivo) ==
    LET ids == {i \in DOMAIN tipos_exame : RegexSearch(motivo, tipos_exame[i].descricao)}
    IN  IF ids = {} THEN NoneId ELSE CHOOSE i \in ids : \A j \in ids : i <= j

\* EXAMES_SEM_ESPECIALISTA as it would be with one more exam in the list
EXAMES_SEM_ESPECIALISTA_Amplo ==
    {LowerStr(Str_ExameDeSangue), LowerStr(Str_RaioX), LowerStr(Str_Tomografia)}

\* services.py:240
EXAMES_SEM_ESPECIALISTA == {LowerStr(Str_ExameDeSangue), LowerStr(Str_RaioX)}

\* pydantic model AgendamentoDetalhado: the fields it keeps
CamposDetalhado ==
    {"id", "paciente_id", "data", "hora_inicio", "status", "observacoes",
     "medico_id", "tipo_exame_id", "nome_medico", "descricao_exame"}

\* AgendamentoDetalhado.model_validate(d) raises: observacoes must be a str
ModelValidateFails(d) == d.observacoes = None

\* AgendamentoDetalhado.model_validate(d): undeclared keys are dropped
ModelValidate(d) == [f \in CamposDetalhado |-> d[f]]

\* EnriquecerDoc as it would be if the exam type were looked up by the
\* physician's id
EnriquecerDoc_ExamePeloMedico(doc) ==
    [nome_medico |-> IF doc.medico_id \in DOMAIN medicos
                     THEN medicos[doc.medico_id].nome ELSE NOME_MEDICO_PADRAO,
     descricao_exame |-> IF doc.medico_id \in DOMAIN tipos_exame
                         THEN tipos_exame[doc.medico_id].descricao
                         ELSE DESCRICAO_EXAME_PADRAO] @@ doc

\* the dict of _enriquecer_e_validar_agendamento after lines 95-99; a key the
\* stored document lacks reads as None through dict.get
EnriquecerDoc(doc) ==
    [nome_medico |-> IF doc.medico_id \in DOMAIN medicos
                     THEN medicos[doc.medico_id].nome ELSE NOME_MEDICO_PADRAO,
     descricao_exame |-> IF doc.tipo_exame_id \in DOMAIN tipos_exame
                         THEN tipos_exame[doc.tipo_exame_id].descricao
                         ELSE DESCRICAO_EXAME_PADRAO] @@ doc

\* _enriquecer_e_validar_agendamento on a document that exists
Enriquecer(doc) == ModelValidate(EnriquecerDoc(doc))

----------------------------------------------------------------------------
(* Slot availability: verificar_disponibilidade_medico *)

\* services.py:174-175, in minutes
HORARIO_INICIO == 480
HORARIO_FIM == 1080
DURACAO_SLOT == 30
\* datetime.time() keeps the time of day of a datetime
MINUTOS_DIA == 1440

TimeOf(dt) == dt % MINUTOS_DIA

\* HorariosOcupados as it would be if the query had no filter on the status
HorariosOcupados_TodosStatus(medico_id, data) ==
    {<<ParseHM(consultas[i].hora_inicio),
       TimeOf(ParseHM(consultas[i].hora_inicio) + consultas[i].duracao_minutos)>> :
        i \in {j \in DOMAIN consultas : /\ consultas[j].medico_id = medico_id
                                        /\ consultas[j].data = data}}

\* services.py:177-185: the (start, end) times of day of the AGENDADA
\* appointments of the physician on the date
HorariosOcupados(medico_id, data) ==
    {<<ParseHM(consultas[i].hora_inicio),
       TimeOf(ParseHM(consultas[i].hora_inicio) + consultas[i].duracao_minutos)>> :
        i \in {j \in DOMAIN consultas : /\ consultas[j].medico_id = medico_id
                                        /\ consultas[j].data = data
                                        /\ consultas[j].status = AGENDADA}}

\* services.py:192: the test that excludes a slot
SlotOcupado(inicio_slot, fim_slot, ocupados) ==
    \E o \in ocupados : inicio_slot < o[2] /\ fim_slot > o[1]

\* LoopContinua as it would be with "<=" for "<"
LoopContinua_Inclusive(slot_atual) == TimeOf(slot_atual) <= HORARIO_FIM

\* services.py:189: the test of the loop on the datetime slot_atual (minutes
\* after the midnight that starts the date)
LoopContinua(slot_atual) == TimeOf(slot_atual) < HORARIO_FIM

\* services.py:190-193: what one iteration appends to slots_livres
LoopCorpo(slot_atual, ocupados) ==
    LET inicio_slot == TimeOf(slot_atual)
        fim_slot == TimeOf(slot_atual + DURACAO_SLOT)
    IN  IF ~SlotOcupado(inicio_slot, fim_slot, ocupados)
        THEN <<[hora_inicio |-> FormatHM(inicio_slot), hora_fim |-> FormatHM(fim_slot)]>>
        ELSE <<>>

\* services.py:189-194: the loop, run from slot_atual to its end
RECURSIVE GerarSlots(_, _)
GerarSlots(slot_atual, ocupados) ==
    IF LoopContinua(slot_atual)
    THEN LoopCorpo(slot_atual, ocupados) \o GerarSlots(slot_atual + DURACAO_SLOT, ocupados)
    ELSE <<>>

\* services.py:187-196
SlotsLivres(medico_id, data) ==
    GerarSlots(HORARIO_INICIO, HorariosOcupados(medico_id, data))

----------------------------------------------------------------------------
(* State of the calling processes *)

NoCall == [op |-> "none"]
NoRet == [kind |-> "none"]
LocInit == [cpf_limpo |-> None, paciente_id |-> NoneId, novo_id |-> NoneId,
            medico_id |-> NoneId, tipo_exame_id |-> NoneId, observacoes |-> None,
            consulta_original |-> None,
            horarios_ocupados |-> {}, slot_atual |-> NoneId, slots_livres |-> <<>>]

\* the initial contents of the store: the database of scripts/db.py, or a
\* database that has no patient and no appointment yet and whose tipo_exame
\* collection lacks "Raio-X"
InitStore ==
    \/ /\ tipos_exame = TiposExameSeed
       /\ pacientes = PacientesSeed
       /\ \E st \in StatusConsulta : consultas = (123 :> ConsultaSeed(st))
    \/ /\ tipos_exame = (1 :> [descricao |-> Str_ExameDeSangue])
       /\ pacientes = <<>>
       /\ consultas = <<>>

\* ps processes, none of which has called a tool yet
InitProcs(ps) ==
    /\ now = 1
    /\ pc = [p \in ps |-> "idle"]
    /\ call = [p \in ps |-> NoCall]
    /\ loc = [p \in ps |-> LocInit]
    /\ ret = [p \in ps |-> NoRet]
    /\ ncalls = 0

\* one caller: the tool calls follow one another
Init == InitStore /\ InitProcs({1})

\* a process that is between two calls starts the call c
Begin(p, c) ==
    /\ pc[p] = "idle"
    /\ ncalls < MaxCalls
    /\ ncalls' = ncalls + 1
    /\ call' = [call EXCEPT ![p] = c]

\* the running call goes on at label l with locals lc
Goto(p, l, lc) ==
    /\ pc' = [pc EXCEPT ![p] = l]
    /\ loc' = [loc EXCEPT ![p] = lc]
    /\ ret' = [ret EXCEPT ![p] = NoRet]

\* the running call returns val
Return(p, val) ==
    /\ pc' = [pc EXCEPT ![p] = "done"]
    /\ UNCHANGED loc
    /\ ret' = [ret EXCEPT ![p] = [kind |-> "ok", val |-> val]]

\* the running call raises err
Raise(p, err) ==
    /\ pc' = [pc EXCEPT ![p] = "done"]
    /\ UNCHANGED loc
    /\ ret' = [ret EXCEPT ![p] = [kind |-> err]]

\* server.py: the tool wrapper hands the result or the error of the finished
\* call to the caller; nothing of the call is kept
Responder(p) ==
    /\ pc[p] = "done"
    /\ pc' = [pc EXCEPT ![p] = "idle"]
    /\ call' = [call EXCEPT ![p] = NoCall]
    /\ ret' = [ret EXCEPT ![p] = NoRet]
    /\ loc' = [loc EXCEPT ![p] = LocInit]
    /\ UNCHANGED <<tipos_exame, pacientes, consultas, now, ncalls>>

\* the clock of datetime.utcnow(), in the milliseconds the store keeps
Tick ==
    /\ now < 1 + MaxClock
    /\ now' = now + 1
    /\ UNCHANGED <<tipos_exame, pacientes, consultas, pc, call, loc, ret, ncalls>>

----------------------------------------------------------------------------
(* Patient identity: _obter_ou_criar_paciente *)

\* where the caller of _obter_ou_criar_paciente goes on
AposPaciente(op) ==
    CASE op = "agendar_exame_simples" -> "exame_find"
      [] op = "agendar_consulta_com_medico" -> "motivo_find"
      [] op = "ver_minhas_consultas" -> "ver_find"

\* services.py:70-73 and 80: validate the CPF and look the patient up
PacienteFindOne(p, op, cpf, lc) ==
    /\ UNCHANGED <<tipos_exame, pacientes, consultas, now>>
    /\ IF ~CpfValido(cpf)
       THEN Raise(p, ValidationError)
       ELSE LET cpf_limpo == LimparCpf(cpf)
                id == PacientePorCpf(cpf_limpo)
            IN  IF id # NoneId
                THEN Goto(p, AposPaciente(op), [lc EXCEPT !.paciente_id = id])
                ELSE Goto(p, "paciente_maior_id", [lc EXCEPT !.cpf_limpo = cpf_limpo])

\* services.py:74-75
PacienteMaiorId(p) ==
    /\ pc[p] = "paciente_maior_id"
    /\ Goto(p, "paciente_insert",
            [loc[p] EXCEPT !.novo_id = NovoId(pacientes, PRIMEIRO_ID_PACIENTE)])
    /\ UNCHANGED <<tipos_exame, pacientes, consultas, now, call, ncalls>>

\* PacienteDuplicado as it would be without the unique index on cpf
PacienteDuplicado_SoId(id, cpf_limpo) == id \in DOMAIN pacientes

\* insert_one on paciente raises DuplicateKeyError: _id is the primary key
\* and cpf has a unique index (scripts/db.py:24)
PacienteDuplicado(id, cpf_limpo) ==
    \/ id \in DOMAIN pacientes
    \/ \E i \in DOMAIN pacientes : pacientes[i].cpf = cpf_limpo

\* services.py:76-78 and 80
PacienteInsert(p) ==
    /\ pc[p] = "paciente_insert"
    /\ UNCHANGED <<tipos_exame, consultas, now, call, ncalls>>
    /\ IF PacienteDuplicado(loc[p].novo_id, loc[p].cpf_limpo)
       THEN /\ Raise(p, DuplicateKeyError)
            /\ UNCHANGED pacientes
       ELSE /\ pacientes' = (loc[p].novo_id :> [nome |-> call[p].nome_paciente,
                                                cpf |-> loc[p].cpf_limpo]) @@ pacientes
            /\ Goto(p, AposPaciente(call[p].op),
                    [loc[p] EXCEPT !.paciente_id = loc[p].novo_id])

----------------------------------------------------------------------------
(* Booking: agendar_exame_simples, agendar_consulta_com_medico,            *)
(* agendar_consulta                                                        *)

\* services.py:240-244
AgendarExameSimples(p) ==
    \E nome_paciente \in NomesPaciente, cpf_paciente \in CpfsBrutos,
       nome_exame \in NomesExame :
        /\ Begin(p, [op |-> "agendar_exame_simples", nome_paciente |-> nome_paciente,
                     cpf_paciente |-> cpf_paciente, nome_exame |-> nome_exame])
        /\ IF LowerStr(nome_exame) \notin EXAMES_SEM_ESPECIALISTA
           THEN /\ Raise(p, ValidationError)
                /\ UNCHANGED <<tipos_exame, pacientes, consultas, now>>
           ELSE PacienteFindOne(p, "agendar_exame_simples", cpf_paciente, LocInit)

\* services.py:245-247 and the arguments of lines 249-252
ExameFind(p) ==
    /\ pc[p] = "exame_find"
    /\ UNCHANGED <<tipos_exame, pacientes, consultas, now, call, ncalls>>
    /\ LET id == ExamePorNome(call[p].nome_exame)
       IN  IF id = NoneId
           THEN Raise(p, NotFoundError)
           ELSE Goto(p, "consulta_maior_id",
                     [loc[p] EXCEPT !.tipo_exame_id = id,
                                    !.observacoes = <<"Exame: ">> \o call[p].nome_exame])

\* services.py:272-276
AgendarConsultaComMedico(p) ==
    \E nome_paciente \in NomesPaciente, cpf_paciente \in CpfsBrutos,
       nome_medico \in NomesMedico :
        /\ Begin(p, [op |-> "agendar_consulta_com_medico", nome_paciente |-> nome_paciente,
                     cpf_paciente |-> cpf_paciente])
        /\ LET medico_id == MedicoPorNome(nome_medico)
           IN  IF medico_id = NoneId
               THEN /\ Raise(p, NotFoundError)
                    /\ UNCHANGED <<tipos_exame, pacientes, consultas, now>>
               ELSE PacienteFindOne(p, "agendar_consulta_com_medico", cpf_paciente,
                                    [LocInit EXCEPT !.medico_id = medico_id])

\* services.py:277-280 and the arguments of lines 282-285
MotivoFind(p) ==
    /\ pc[p] = "motivo_find"
    /\ UNCHANGED <<tipos_exame, pacientes, consultas, now, call, ncalls>>
    /\ \E motivo_consulta \in Motivos :
        LET tipo_exame_id == IF motivo_consulta # None /\ motivo_consulta # <<>>
                             THEN ExamePorMotivo(motivo_consulta) ELSE NoneId
        IN  Goto(p, "consulta_maior_id",
                 [loc[p] EXCEPT !.tipo_exame_id = tipo_exame_id,
                                !.observacoes = motivo_consulta])

\* services.py:305-306
ConsultaMaiorId(p) ==
    /\ pc[p] = "consulta_maior_id"
    /\ Goto(p, "consulta_insert",
            [loc[p] EXCEPT !.novo_id = NovoId(consultas, PRIMEIRO_ID_CONSULTA)])
    /\ UNCHANGED <<tipos_exame, pacientes, consultas, now, call, ncalls>>

\* services.py:308-314: the document to insert
NovaConsulta(p, data_str, hora_inicio_str) ==
    [id |-> loc[p].novo_id, paciente_id |-> loc[p].paciente_id,
     data |-> data_str, hora_inicio |-> hora_inicio_str,
     duracao_minutos |-> DURACAO_MINUTOS, status |-> AGENDADA,
     observacoes |-> loc[p].observacoes,
     medico_id |-> IF Truthy(loc[p].medico_id) THEN loc[p].medico_id ELSE NoneId,
     tipo_exame_id |-> IF Truthy(loc[p].tipo_exame_id) THEN loc[p].tipo_exame_id ELSE NoneId,
     created_at |-> now, updated_at |-> now]

\* ConsultaDuplicada as it would be if _id were no key of the collection
ConsultaDuplicada_Nunca(doc) == FALSE

\* insert_one on consulta raises DuplicateKeyError: _id is the primary key and
\* no index of consulta is unique (scripts/db.py:22-23)
ConsultaDuplicada(doc) == doc.id \in DOMAIN consultas

\* services.py:316-319
ConsultaInsert(p) ==
    /\ pc[p] = "consulta_insert"
    /\ UNCHANGED <<tipos_exame, pacientes, now, ncalls>>
    /\ \E slot \in Slots :
        LET nova_consulta == NovaConsulta(p, slot[1], slot[2])
        IN  /\ call' = [call EXCEPT ![p] = [data |-> slot[1], hora_inicio |-> slot[2]] @@ @]
            /\ IF ConsultaDuplicada(nova_consulta)
               THEN /\ Raise(p, ConflictError)
                    /\ UNCHANGED consultas
               ELSE /\ consultas' = (loc[p].novo_id :> nova_consulta) @@ consultas
                    /\ Goto(p, "consulta_read_back", loc[p])

\* find_one({"_id": id}) followed by _enriquecer_e_validar_agendamento
ReadBack(p, id) ==
    IF ModelValidateFails(EnriquecerDoc(consultas[id]))
    THEN Raise(p, ModelValidationError)
    ELSE Return(p, Enriquecer(consultas[id]))

\* services.py:321-322
ConsultaReadBack(p) ==
    /\ pc[p] = "consulta_read_back"
    /\ ReadBack(p, loc[p].novo_id)
    /\ UNCHANGED <<tipos_exame, pacientes, consultas, now, call, ncalls>>

----------------------------------------------------------------------------
(* Listing: ver_minhas_consultas *)

\* date.today() at the moment of the call
Hojes == {<<2025, 6, 10>>, <<2025, 7, 1>>}

\* comparison of two 'YYYY-MM-DD' strings ("$gte", sort)
DataLeq(a, b) ==
    \/ a[1] < b[1]
    \/ a[1] = b[1] /\ a[2] < b[2]
    \/ a[1] = b[1] /\ a[2] = b[2] /\ a[3] <= b[3]

\* ConsultasFuturas as it would be if the query had no filter on the status
ConsultasFuturas_QualquerStatus(paciente_id, hoje) ==
    {i \in DOMAIN consultas : /\ consultas[i].paciente_id = paciente_id
                              /\ DataLeq(hoje, consultas[i].data)}

\* services.py:342-344: the ids the query selects
ConsultasFuturas(paciente_id, hoje) ==
    {i \in DOMAIN consultas : /\ consultas[i].paciente_id = paciente_id
                              /\ consultas[i].status = AGENDADA
                              /\ DataLeq(hoje, consultas[i].data)}

\* the orders in which sort("data", ASCENDING) may deliver the ids S
\* (the store fixes no order among equal dates)
OrdenadasPorData(S) ==
    {sq \in [1..Cardinality(S) -> S] :
        /\ \A i, j \in 1..Cardinality(S) : i # j => sq[i] # sq[j]
        /\ \A i, j \in 1..Cardinality(S) :
              i < j => DataLeq(consultas[sq[i]].data, consultas[sq[j]].data)}

\* services.py:337
VerMinhasConsultas(p) ==
    \E cpf_paciente \in CpfsBrutos :
        /\ Begin(p, [op |-> "ver_minhas_consultas", nome_paciente |-> "Busca",
                     cpf_paciente |-> cpf_paciente])
        /\ PacienteFindOne(p, "ver_minhas_consultas", cpf_paciente, LocInit)

\* VerFind as it would be if the listing stamped the appointments it returns
VerFind_Carimba(p) ==
    /\ pc[p] = "ver_find"
    /\ UNCHANGED <<tipos_exame, pacientes, now, call, ncalls>>
    /\ \E hoje \in Hojes :
         \E sq \in OrdenadasPorData(ConsultasFuturas(loc[p].paciente_id, hoje)) :
            /\ consultas' = [i \in DOMAIN consultas |->
                                IF i \in ConsultasFuturas(loc[p].paciente_id, hoje)
                                THEN [consultas[i] EXCEPT !.updated_at = now]
                                ELSE consultas[i]]
            /\ IF \E i \in 1..Len(sq) : ModelValidateFails(EnriquecerDoc(consultas[sq[i]]))
               THEN Raise(p, ModelValidationError)
               ELSE Return(p, [hoje |-> hoje, paciente_id |-> loc[p].paciente_id,
                               lista |-> [i \in 1..Len(sq) |-> Enriquecer(consultas[sq[i]])]])

\* services.py:341-346
VerFind(p) ==
    /\ pc[p] = "ver_find"
    /\ UNCHANGED <<tipos_exame, pacientes, consultas, now, call, ncalls>>
    /\ \E hoje \in Hojes :
         \E sq \in OrdenadasPorData(ConsultasFuturas(loc[p].paciente_id, hoje)) :
            IF \E i \in 1..Len(sq) : ModelValidateFails(EnriquecerDoc(consultas[sq[i]]))
            THEN Raise(p, ModelValidationError)
            ELSE Return(p, [hoje |-> hoje, paciente_id |-> loc[p].paciente_id,
                            lista |-> [i \in 1..Len(sq) |-> Enriquecer(consultas[sq[i]])]])

----------------------------------------------------------------------------
(* Lifecycle: reagendar_consulta, cancelar_consulta *)

\* ReagendarConsulta as it would be if an id that is not stored were reported
\* as a conflict
ReagendarConsulta_ErroDeConflito(p) ==
    \E consulta_id \in ConsultaIds, slot \in Slots :
        /\ Begin(p, [op |-> "reagendar_consulta", consulta_id |-> consulta_id,
                     data |-> slot[1], hora_inicio |-> slot[2]])
        /\ UNCHANGED <<tipos_exame, pacientes, consultas, now>>
        /\ IF consulta_id \notin DOMAIN consultas
           THEN Raise(p, ConflictError)
           ELSE LET medico_id == consultas[consulta_id].medico_id
                IN  Goto(p, IF Truthy(medico_id) THEN "reag_conflito" ELSE "reag_update",
                         [LocInit EXCEPT !.medico_id = medico_id,
                                         !.consulta_original = consultas[consulta_id]])

\* services.py:363-367
ReagendarConsulta(p) ==
    \E consulta_id \in ConsultaIds, slot \in Slots :
        /\ Begin(p, [op |-> "reagendar_consulta", consulta_id |-> consulta_id,
                     data |-> slot[1], hora_inicio |-> slot[2]])
        /\ UNCHANGED <<tipos_exame, pacientes, consultas, now>>
        /\ IF consulta_id \notin DOMAIN consultas
           THEN Raise(p, NotFoundError)
           ELSE LET medico_id == consultas[consulta_id].medico_id
                IN  Goto(p, IF Truthy(medico_id) THEN "reag_conflito" ELSE "reag_update",
                         [LocInit EXCEPT !.medico_id = medico_id,
                                         !.consulta_original = consultas[consulta_id]])

\* Conflito as it would be if only AGENDADA appointments counted
Conflito_SoAgendadas(consulta_id, medico_id, nova_data_str, nova_hora_str) ==
    \E i \in DOMAIN consultas :
        /\ consultas[i].medico_id = medico_id
        /\ consultas[i].data = nova_data_str
        /\ consultas[i].hora_inicio = nova_hora_str
        /\ consultas[i].status = AGENDADA
        /\ i # consulta_id

\* services.py:369-371: the query finds a document
Conflito(consulta_id, medico_id, nova_data_str, nova_hora_str) ==
    \E i \in DOMAIN consultas :
        /\ consultas[i].medico_id = medico_id
        /\ consultas[i].data = nova_data_str
        /\ consultas[i].hora_inicio = nova_hora_str
        /\ i # consulta_id

\* services.py:368-373
ReagConflito(p) ==
    /\ pc[p] = "reag_conflito"
    /\ UNCHANGED <<tipos_exame, pacientes, consultas, now, call, ncalls>>
    /\ IF Conflito(call[p].consulta_id, loc[p].medico_id, call[p].data, call[p].hora_inicio)
       THEN Raise(p, ConflictError)
       ELSE Goto(p, "reag_update", loc[p])

\* Reagendada as it would be if a reschedule set the status as well
Reagendada_Reativa(doc, nova_data_str, nova_hora_str) ==
    [doc EXCEPT !.data = nova_data_str, !.hora_inicio = nova_hora_str,
                !.status = AGENDADA, !.updated_at = now]

\* Reagendada as it would be if the update had the conflict test in its
\* filter: it leaves the document alone while another appointment of the
\* physician holds the new date and time
Reagendada_SeLivre(doc, nova_data_str, nova_hora_str) ==
    IF \E i \in DOMAIN consultas :
          /\ i # doc.id
          /\ consultas[i].medico_id = doc.medico_id
          /\ consultas[i].data = nova_data_str
          /\ consultas[i].hora_inicio = nova_hora_str
    THEN doc
    ELSE [doc EXCEPT !.data = nova_data_str, !.hora_inicio = nova_hora_str,
                     !.updated_at = now]

\* services.py:375-378: the document after the $set
Reagendada(doc, nova_data_str, nova_hora_str) ==
    [doc EXCEPT !.data = nova_data_str, !.hora_inicio = nova_hora_str, !.updated_at = now]

\* services.py:375-381; modified_count counts the documents the $set changed
ReagUpdate(p) ==
    /\ pc[p] = "reag_update"
    /\ UNCHANGED <<tipos_exame, pacientes, now, call, ncalls>>
    /\ LET id == call[p].consulta_id
           doc == Reagendada(consultas[id], call[p].data, call[p].hora_inicio)
           modified_count == IF doc # consultas[id] THEN 1 ELSE 0
       IN  /\ consultas' = [consultas EXCEPT ![id] = doc]
           /\ IF modified_count = 0
              THEN Raise(p, ConflictError)
              ELSE Goto(p, "reag_read_back", loc[p])

\* services.py:383-384
ReagReadBack(p) ==
    /\ pc[p] = "reag_read_back"
    /\ ReadBack(p, call[p].consulta_id)
    /\ UNCHANGED <<tipos_exame, pacientes, consultas, now, call, ncalls>>

\* Cancelada as it would be if the cancel cleared the notes as well
Cancelada_SemNotas(doc) ==
    [doc EXCEPT !.status = CANCELADA, !.updated_at = now, !.observacoes = <<>>]

\* services.py:398-401: the document after the $set
Cancelada(doc) == [doc EXCEPT !.status = CANCELADA, !.updated_at = now]

\* services.py:398-403; the filter of update_one is the _id alone
CancelarConsulta(p) ==
    \E consulta_id \in ConsultaIds :
        /\ Begin(p, [op |-> "cancelar_consulta", consulta_id |-> consulta_id])
        /\ UNCHANGED <<tipos_exame, pacientes, now>>
        /\ LET matched == consulta_id \in DOMAIN consultas
               modified_count ==
                   IF matched /\ Cancelada(consultas[consulta_id]) # consultas[consulta_id]
                   THEN 1 ELSE 0
           IN  /\ consultas' = IF matched
                               THEN [consultas EXCEPT ![consulta_id] = Cancelada(@)]
                               ELSE consultas
               /\ IF modified_count = 0
                  THEN Raise(p, NotFoundError)
                  ELSE Goto(p, "canc_read_back", LocInit)

\* services.py:405-406
CancReadBack(p) ==
    /\ pc[p] = "canc_read_back"
    /\ ReadBack(p, call[p].consulta_id)
    /\ UNCHANGED <<tipos_exame, pacientes, consultas, now, call, ncalls>>

----------------------------------------------------------------------------
(* Availability: verificar_disponibilidade_medico as one read of the store *)

VerificarDisponibilidadeMedico(p) ==
    \E medico_id \in {42, 58}, data_str \in Datas \cup {DataInvalida} :
        /\ Begin(p, [op |-> "verificar_disponibilidade_medico",
                     medico_id |-> medico_id, data |-> data_str])
        /\ UNCHANGED <<tipos_exame, pacientes, consultas, now>>
        /\ IF ~DateOK(data_str)
           THEN Raise(p, ValidationError)
           ELSE Return(p, SlotsLivres(medico_id, data_str))

----------------------------------------------------------------------------

\* the tool calls that read and write the store
Next ==
    \/ \E p \in Procs : VerificarDisponibilidadeMedico(p)
    \/ Tick
    \/ \E p \in Procs : AgendarExameSimples(p)
    \/ \E p \in Procs : AgendarConsultaComMedico(p)
    \/ \E p \in Procs : PacienteMaiorId(p)
    \/ \E p \in Procs : PacienteInsert(p)
    \/ \E p \in Procs : ExameFind(p)
    \/ \E p \in Procs : MotivoFind(p)
    \/ \E p \in Procs : ConsultaMaiorId(p)
    \/ \E p \in Procs : ConsultaInsert(p)
    \/ \E p \in Procs : ConsultaReadBack(p)
    \/ \E p \in Procs : VerMinhasConsultas(p)
    \/ \E p \in Procs : VerFind(p)
    \/ \E p \in Procs : ReagendarConsulta(p)
    \/ \E p \in Procs : ReagConflito(p)
    \/ \E p \in Procs : ReagUpdate(p)
    \/ \E p \in Procs : ReagReadBack(p)
    \/ \E p \in Procs : CancelarConsulta(p)
    \/ \E p \in Procs : CancReadBack(p)
    \/ \E p \in Procs : Responder(p)

Spec == Init /\ [][Next]_vars

----------------------------------------------------------------------------
(* The slot calculation on its own: any two appointments in the store *)

HorasSlots == {<<7, 45>>, <<8, 0>>, <<8, 15>>, <<17, 30>>, <<17, 45>>, <<23, 45>>}

\* an appointment as agendar_consulta stores it, with any status
ConsultasSlots(id) ==
    {[id |-> id, paciente_id |-> 101, data |-> d, hora_inicio |-> h,
      duracao_minutos |-> DURACAO_MINUTOS, status |-> st, observacoes |-> <<>>,
      medico_id |-> m, tipo_exame_id |-> NoneId, created_at |-> 0, updated_at |-> 0] :
        d \in Datas, h \in HorasSlots, st \in StatusConsulta, m \in {42, 58}}

InitSlots ==
    /\ tipos_exame = TiposExameSeed
    /\ pacientes = PacientesSeed
    /\ \/ consultas = <<>>
       \/ \E c1 \in ConsultasSlots(123) : consultas = (123 :> c1)
       \/ \E c1 \in ConsultasSlots(123), c2 \in ConsultasSlots(124) :
             consultas = (123 :> c1) @@ (124 :> c2)
    /\ InitProcs({1})

NextSlots ==
    \/ \E p \in Procs : VerificarDisponibilidadeMedico(p)
    \/ \E p \in Procs : Responder(p)

SpecSlots == InitSlots /\ [][NextSlots]_vars

----------------------------------------------------------------------------
(* The slot calculation with its loop run one iteration at a time *)

\* services.py:169-188: parse the date, read the appointments, set up the loop
VerificarInicio(p) ==
    \E medico_id \in {42, 58}, data_str \in Datas \cup {DataInvalida} :
        /\ Begin(p, [op |-> "verificar_disponibilidade_medico",
                     medico_id |-> medico_id, data |-> data_str])
        /\ UNCHANGED <<tipos_exame, pacientes, consultas, now>>
        /\ IF ~DateOK(data_str)
           THEN Raise(p, ValidationError)
           ELSE Goto(p, "slots_loop",
                     [LocInit EXCEPT !.horarios_ocupados = HorariosOcupados(medico_id, data_str),
                                     !.slot_atual = HORARIO_INICIO,
                                     !.slots_livres = <<>>])

\* services.py:189-196: one test of the loop, followed by one iteration or by
\* the return
VerificarLoop(p) ==
    /\ pc[p] = "slots_loop"
    /\ UNCHANGED <<tipos_exame, pacientes, consultas, now, call, ncalls>>
    /\ IF LoopContinua(loc[p].slot_atual)
       THEN Goto(p, "slots_loop",
                 [loc[p] EXCEPT
                    !.slots_livres = @ \o LoopCorpo(loc[p].slot_atual, loc[p].horarios_ocupados),
                    !.slot_atual = @ + DURACAO_SLOT])
       ELSE Return(p, loc[p].slots_livres)

\* at most one appointment in the store
InitGrade ==
    /\ tipos_exame = TiposExameSeed
    /\ pacientes = PacientesSeed
    /\ \/ consultas = <<>>
       \/ \E c1 \in ConsultasSlots(123) : consultas = (123 :> c1)
    /\ InitProcs({1})

NextGrade ==
    \/ \E p \in Procs : VerificarInicio(p)
    \/ \E p \in Procs : VerificarLoop(p)
    \/ \E p \in Procs : Responder(p)

\* the loop is sequential code: while it can take a step it takes one
SpecGrade ==
    InitGrade /\ [][NextGrade]_vars /\ WF_vars(\E p \in Procs : VerificarLoop(p))

----------------------------------------------------------------------------
(* Properties *)

\* the call of process p has finished with the error err
Failed(p, err) == pc[p] = "done" /\ ret[p].kind = err

\* another appointment than id is stored for physician medico_id at (d, t)
OutraNoHorario(id, medico_id, d, t) ==
    \E y \in DOMAIN consultas :
        /\ y # id
        /\ consultas[y].medico_id = medico_id
        /\ consultas[y].data = d
        /\ consultas[y].hora_inicio = t

\* C1: no reachable store holds two appointments of the same physician at
\* the same date and start time (of two bookings that name the same
\* physician, date and time at most one inserts its appointment).
C1_SemDuplaMarcacao ==
    \A i, j \in DOMAIN consultas :
        (/\ i # j
         /\ Truthy(consultas[i].medico_id)
         /\ consultas[i].medico_id = consultas[j].medico_id
         /\ consultas[i].data = consultas[j].data)
        => consultas[i].hora_inicio # consultas[j].hora_inicio

\* C2: a step of reschedule(X, d, t) taken while X has a physician and
\* another appointment of that physician is stored at (d, t) never leads to
\* the update: at the conflict check it ends the call with ConflictError, and
\* it leaves the store (so the date and time of X) unchanged.
C2_ReagendarConflito ==
    [][\A p \in Procs :
        (/\ pc'[p] # pc[p]
         /\ pc[p] \in {"idle", "reag_conflito"}
         /\ call'[p].op = "reagendar_consulta"
         /\ call'[p].consulta_id \in DOMAIN consultas
         /\ Truthy(consultas[call'[p].consulta_id].medico_id)
         /\ OutraNoHorario(call'[p].consulta_id,
                           consultas[call'[p].consulta_id].medico_id,
                           call'[p].data, call'[p].hora_inicio))
        => /\ consultas' = consultas
           /\ IF pc[p] = "idle"
              THEN pc'[p] = "reag_conflito"
              ELSE pc'[p] = "done" /\ ret'[p].kind = ConflictError]_vars

\* C2 witness: a reschedule has failed with ConflictError while another
\* appointment of the physician of X holds the requested date and time,
\* which are not those of X.
C2_Witness ==
    \E p \in Procs :
        /\ Failed(p, ConflictError)
        /\ call[p].op = "reagendar_consulta"
        /\ OutraNoHorario(call[p].consulta_id, consultas[call[p].consulta_id].medico_id,
                          call[p].data, call[p].hora_inicio)
        /\ <<consultas[call[p].consulta_id].data,
             consultas[call[p].consulta_id].hora_inicio>>
             # <<call[p].data, call[p].hora_inicio>>

\* C3: reschedule(X, d, t) with (d, t) other than the date and time of X and
\* held by no other appointment of the physician of X applies the update,
\* succeeds, and returns X read back with date d and start time t.
C3_ReagendarSucesso ==
    [][\A p \in Procs :
        (/\ pc[p] \in {"reag_update", "reag_read_back"}
         /\ pc'[p] # pc[p]
         /\ <<loc[p].consulta_original.data, loc[p].consulta_original.hora_inicio>>
              # <<call[p].data, call[p].hora_inicio>>)
        => IF pc[p] = "reag_update"
           THEN /\ pc'[p] = "reag_read_back"
                /\ consultas'[call[p].consulta_id].data = call[p].data
                /\ consultas'[call[p].consulta_id].hora_inicio = call[p].hora_inicio
           ELSE /\ pc'[p] = "done"
                /\ ret'[p].kind = "ok"
                /\ ret'[p].val.data = call[p].data
                /\ ret'[p].val.hora_inicio = call[p].hora_inicio]_vars

\* C4: cancel(X) on an appointment whose status is CANCELLED fails with
\* NotFoundError and leaves the record as it is.
C4_CancelarCancelada ==
    [][\A p \in Procs :
        (/\ pc[p] = "idle"
         /\ pc'[p] # "idle"
         /\ call'[p].op = "cancelar_consulta"
         /\ call'[p].consulta_id \in DOMAIN consultas
         /\ consultas[call'[p].consulta_id].status = CANCELADA)
        => /\ pc'[p] = "done"
           /\ ret'[p].kind = NotFoundError
           /\ consultas' = consultas]_vars

\* C5: cancel(X) on an appointment whose status is SCHEDULED sets the status
\* to CANCELLED, succeeds and returns the view of X with status CANCELLED;
\* the status of X stays CANCELLED afterwards.
C5_CancelarAgendada ==
    [][/\ \A p \in Procs :
            (/\ pc[p] = "idle"
             /\ pc'[p] # "idle"
             /\ call'[p].op = "cancelar_consulta"
             /\ call'[p].consulta_id \in DOMAIN consultas
             /\ consultas[call'[p].consulta_id].status = AGENDADA)
            => /\ pc'[p] = "canc_read_back"
               /\ consultas'[call'[p].consulta_id].status = CANCELADA
       /\ \A p \in Procs :
            (pc[p] = "canc_read_back" /\ pc'[p] # pc[p])
            => /\ pc'[p] = "done"
               /\ ret'[p].kind = "ok"
               /\ ret'[p].val.id = call[p].consulta_id
               /\ ret'[p].val.status = CANCELADA
       /\ \A i \in DOMAIN consultas :
            consultas[i].status = CANCELADA => consultas'[i].status = CANCELADA]_vars

\* C6: no step changes the status of an appointment that is CANCELLED, and no
\* step gives an appointment the status COMPLETED (neither by an update nor
\* by an insert).
C6_StatusTerminal ==
    [][/\ \A i \in DOMAIN consultas :
            /\ i \in DOMAIN consultas'
            /\ consultas[i].status = CANCELADA => consultas'[i].status = CANCELADA
            /\ consultas'[i].status = CONCLUIDA => consultas[i].status = CONCLUIDA
       /\ \A i \in DOMAIN consultas' \ DOMAIN consultas :
            consultas'[i].status # CONCLUIDA]_vars

\* C6 witness: a reschedule has succeeded on an appointment that is CANCELLED.
C6_Witness ==
    \E p \in Procs :
        /\ pc[p] = "done"
        /\ ret[p].kind = "ok"
        /\ call[p].op = "reagendar_consulta"
        /\ consultas[call[p].consulta_id].status = CANCELADA

\* the calls that resolve a patient
ResolvePaciente ==
    {"agendar_exame_simples", "agendar_consulta_com_medico", "ver_minhas_consultas"}

\* the patients stored under the normalized form of the national ID cpf
ComCpf(cpf) == {i \in DOMAIN pacientes : pacientes[i].cpf = LimparCpf(cpf)}

\* C7: resolving a valid national ID is idempotent. No two patients share a
\* national ID and no step changes or removes a patient record, so the name
\* the first call stored stays; a call made when a patient of that national
\* ID exists never takes the path that creates one, inserts nothing and
\* yields the id of that patient, whatever name it supplies; only a call that
\* found none inserts, and it inserts one record under the supplied name.
C7_ResolverIdempotente ==
    /\ [](\A i, j \in DOMAIN pacientes : i # j => pacientes[i].cpf # pacientes[j].cpf)
    /\ [][/\ \A i \in DOMAIN pacientes :
               i \in DOMAIN pacientes' /\ pacientes'[i] = pacientes[i]
          /\ \A p \in Procs :
               (/\ pc[p] = "idle"
                /\ pc'[p] # "idle"
                /\ call'[p].op \in ResolvePaciente
                /\ CpfValido(call'[p].cpf_paciente)
                /\ ComCpf(call'[p].cpf_paciente) # {})
               => /\ pacientes' = pacientes
                  /\ pc'[p] # "paciente_maior_id"
                  /\ call'[p].op = "ver_minhas_consultas" => pc'[p] = "ver_find"
                  /\ pc'[p] # "done" => loc'[p].paciente_id \in ComCpf(call'[p].cpf_paciente)
          /\ \A p \in Procs :
               (pc[p] = "paciente_insert" /\ pc'[p] \notin {"paciente_insert", "done"})
               => /\ ComCpf(call[p].cpf_paciente) = {}
                  /\ DOMAIN pacientes' = DOMAIN pacientes \cup {loc'[p].paciente_id}
                  /\ loc'[p].paciente_id \notin DOMAIN pacientes
                  /\ pacientes'[loc'[p].paciente_id] =
                        [nome |-> call[p].nome_paciente,
                         cpf |-> LimparCpf(call[p].cpf_paciente)]]_vars

\* C7 witness: a booking under one name has resolved its national ID to the
\* patient that an earlier call of this run created under another name.
C7_Witness ==
    \E p \in Procs :
        /\ pc[p] \in {"exame_find", "motivo_find"}
        /\ loc[p].paciente_id \in DOMAIN pacientes \ DOMAIN PacientesSeed
        /\ pacientes[loc[p].paciente_id].nome # call[p].nome_paciente

\* the 20 slots of the daily grid, numbered from 0: 08:00, 08:30, ..., 17:30
SlotDaGrade(k) ==
    [hora_inicio |-> <<(480 + 30 * k) \div 60, (480 + 30 * k) % 60>>,
     hora_fim |-> <<(510 + 30 * k) \div 60, (510 + 30 * k) % 60>>]

\* an AGENDADA appointment of the physician on the date occupies minutes of
\* [a, b): it holds [start, start + duration)
Sobreposto(medico_id, data, a, b) ==
    \E i \in DOMAIN consultas :
        /\ consultas[i].medico_id = medico_id
        /\ consultas[i].data = data
        /\ consultas[i].status = AGENDADA
        /\ a < consultas[i].hora_inicio[1] * 60 + consultas[i].hora_inicio[2]
                 + consultas[i].duracao_minutos
        /\ b > consultas[i].hora_inicio[1] * 60 + consultas[i].hora_inicio[2]

\* the call of process p is a freeSlots call that has returned its slots
SlotsDevolvidos(p) ==
    /\ pc[p] = "done"
    /\ call[p].op = "verificar_disponibilidade_medico"
    /\ ret[p].kind = "ok"

\* C8: freeSlots returns slots of the grid only, and a slot of the grid if
\* and only if it overlaps no AGENDADA appointment of that physician on that
\* date.
C8_SlotsLivres ==
    \A p \in Procs :
        SlotsDevolvidos(p) =>
            /\ \A i \in 1..Len(ret[p].val) : \E k \in 0..19 : ret[p].val[i] = SlotDaGrade(k)
            /\ \A k \in 0..19 :
                 (\E i \in 1..Len(ret[p].val) : ret[p].val[i] = SlotDaGrade(k))
                 <=> ~Sobreposto(call[p].medico_id, call[p].data, 480 + 30 * k, 510 + 30 * k)

\* C8 witness: freeSlots has left out a slot while it returned a slot that
\* an appointment of the same physician and date with another status holds.
C8_Witness ==
    \E p \in Procs :
        /\ SlotsDevolvidos(p)
        /\ Len(ret[p].val) < 20
        /\ \E c \in DOMAIN consultas, i \in 1..Len(ret[p].val) :
            /\ consultas[c].status # AGENDADA
            /\ consultas[c].medico_id = call[p].medico_id
            /\ consultas[c].data = call[p].data
            /\ consultas[c].hora_inicio = ret[p].val[i].hora_inicio

\* C9: with no AGENDADA appointment of the physician on the date, freeSlots
\* returns the 20 slots of the grid in order: 08:00-08:30, ..., 17:30-18:00;
\* and the loop that generates the slots always comes to its end.
C9_GradeCompleta ==
    /\ [](\A p \in Procs :
            (/\ SlotsDevolvidos(p)
             /\ \A i \in DOMAIN consultas :
                   ~(/\ consultas[i].medico_id = call[p].medico_id
                     /\ consultas[i].data = call[p].data
                     /\ consultas[i].status = AGENDADA))
            => /\ Len(ret[p].val) = 20
               /\ \A k \in 1..20 : ret[p].val[k] = SlotDaGrade(k - 1)
               /\ ret[p].val[1].hora_inicio = <<8, 0>>
               /\ ret[p].val[20].hora_fim = <<18, 0>>)
    /\ \A p \in {1} : (pc[p] = "slots_loop") ~> (pc[p] = "done")

\* C9 witness: freeSlots has returned the whole grid for a physician and a
\* date while the store holds appointments that do not count.
C9_Witness ==
    \E p \in Procs :
        /\ SlotsDevolvidos(p)
        /\ Len(ret[p].val) = 20
        /\ DOMAIN consultas # {}
        /\ ~Sobreposto(call[p].medico_id, call[p].data, 0, 1440)

\* the views that the finished call of process p has returned
Views(p) ==
    IF pc[p] = "done" /\ ret[p].kind = "ok"
    THEN IF call[p].op \in {"agendar_exame_simples", "agendar_consulta_com_medico",
                            "reagendar_consulta", "cancelar_consulta"}
         THEN {ret[p].val}
         ELSE IF call[p].op = "ver_minhas_consultas"
              THEN {ret[p].val.lista[i] : i \in 1..Len(ret[p].val.lista)}
              ELSE {}
    ELSE {}

\* the enriched fields of a view are those of the claim: the name of the
\* stored physician or the exam-only placeholder, the description of the
\* stored exam type or the routine-consultation default
EnriquecidoCerto(v) ==
    /\ v.nome_medico = IF v.medico_id \in DOMAIN medicos
                       THEN medicos[v.medico_id].nome ELSE <<"N/A (Apenas Exame)">>
    /\ v.descricao_exame = IF v.tipo_exame_id \in DOMAIN tipos_exame
                           THEN tipos_exame[v.tipo_exame_id].descricao
                           ELSE <<"Consulta de Rotina">>

\* a successful bookExam returns a view with the exam type set, no physician
\* and the placeholder name
ExameCerto(p) ==
    \A v \in Views(p) :
        call[p].op = "agendar_exame_simples"
        => /\ v.tipo_exame_id \in DOMAIN tipos_exame
           /\ v.medico_id = NoneId
           /\ v.nome_medico = <<"N/A (Apenas Exame)">>

\* no stored appointment has an enriched field
NaoPersistido ==
    \A i \in DOMAIN consultas :
        DOMAIN consultas[i] \cap {"nome_medico", "descricao_exame"} = {}

\* C10 as stated: every returned view carries every field of the stored
\* appointment, with the stored value, plus the two enriched fields.
C10_TodosOsCampos ==
    /\ NaoPersistido
    /\ \A p \in Procs : ExameCerto(p)
    /\ \A p \in Procs : \A v \in Views(p) :
         /\ EnriquecidoCerto(v)
         /\ \A f \in DOMAIN consultas[v.id] :
              f \in DOMAIN v /\ v[f] = consultas[v.id][f]

\* C10 amended: every returned view carries the id, patient, date, start
\* time, status, notes, physician and exam type of the stored appointment
\* (not its duration nor its timestamps) plus the two enriched fields.
C10_CamposDaView ==
    /\ NaoPersistido
    /\ \A p \in Procs : ExameCerto(p)
    /\ \A p \in Procs : \A v \in Views(p) :
         /\ EnriquecidoCerto(v)
         /\ DOMAIN v = {"id", "paciente_id", "data", "hora_inicio", "status", "observacoes",
                        "medico_id", "tipo_exame_id", "nome_medico", "descricao_exame"}
         /\ \A f \in {"id", "paciente_id", "data", "hora_inicio", "status", "observacoes",
                      "medico_id", "tipo_exame_id"} :
              v[f] = consultas[v.id][f]

\* C10 witness: a bookExam has returned its view, and so has a call on an
\* appointment that has a physician and an exam type.
C10_Witness ==
    \E p \in Procs : \E v \in Views(p) :
        /\ call[p].op = "agendar_exame_simples"
        /\ \E i \in DOMAIN consultas :
              consultas[i].medico_id \in DOMAIN medicos

----------------------------------------------------------------------------
(* The listing on its own: stores of one to three appointments of the two  *)
(* seed patients, with any status and dates around the two values of today *)

DatasLista == {<<2025, 6, 10>>, <<2025, 6, 30>>, <<2025, 7, 15>>}

\* an appointment as agendar_consulta stores it, with any status
ConsultasLista(id) ==
    {[id |-> id, paciente_id |-> pa, data |-> d, hora_inicio |-> <<14, 0>>,
      duracao_minutos |-> DURACAO_MINUTOS, status |-> st, observacoes |-> <<"Retorno">>,
      medico_id |-> 42, tipo_exame_id |-> NoneId, created_at |-> 0, updated_at |-> 0] :
        pa \in DOMAIN PacientesSeed, d \in DatasLista, st \in StatusConsulta}

InitLista ==
    /\ tipos_exame = TiposExameSeed
    /\ pacientes = PacientesSeed
    /\ \/ \E c1 \in ConsultasLista(123) : consultas = (123 :> c1)
       \/ \E c1 \in ConsultasLista(123), c2 \in ConsultasLista(124) :
             consultas = (123 :> c1) @@ (124 :> c2)
       \/ \E c1 \in ConsultasLista(123), c2 \in ConsultasLista(124),
             c3 \in ConsultasLista(125) :
             consultas = (123 :> c1) @@ (124 :> c2) @@ (125 :> c3)
    /\ InitProcs({1})

NextLista ==
    \/ \E p \in Procs : VerMinhasConsultas(p)
    \/ \E p \in Procs : PacienteMaiorId(p)
    \/ \E p \in Procs : PacienteInsert(p)
    \/ \E p \in Procs : VerFind(p)
    \/ \E p \in Procs : Responder(p)

SpecLista == InitLista /\ [][NextLista]_vars

\* the call of process p is a listing that has returned its list
ListaDevolvida(p) ==
    /\ pc[p] = "done"
    /\ call[p].op = "ver_minhas_consultas"
    /\ ret[p].kind = "ok"

\* a date as the number yyyymmdd
NumData(d) == d[1] * 10000 + d[2] * 100 + d[3]

\* the appointments that a listing for the national ID cpf made on the day
\* hoje has to return: those of the patient stored under that national ID
\* that are SCHEDULED and dated hoje or later
Esperadas(cpf, hoje) ==
    {i \in DOMAIN consultas :
        /\ consultas[i].paciente_id \in DOMAIN pacientes
        /\ pacientes[consultas[i].paciente_id].cpf = LimparCpf(cpf)
        /\ consultas[i].status = AGENDADA
        /\ NumData(consultas[i].data) >= NumData(hoje)}

\* C11: a listing returns each appointment of the patient of the national ID
\* that is SCHEDULED and dated today or later exactly once, with its stored
\* date and status, and nothing else, in ascending order of date.
C11_ListaExata ==
    \A p \in Procs :
        ListaDevolvida(p) =>
            LET lista == ret[p].val.lista
                esperadas == Esperadas(call[p].cpf_paciente, ret[p].val.hoje)
            IN  /\ {lista[k].id : k \in 1..Len(lista)} = esperadas
                /\ Len(lista) = Cardinality(esperadas)
                /\ \A k \in 1..Len(lista) :
                      /\ lista[k].data = consultas[lista[k].id].data
                      /\ lista[k].status = AGENDADA
                      /\ lista[k].paciente_id = consultas[lista[k].id].paciente_id
                /\ \A j, k \in 1..Len(lista) :
                      j < k => NumData(lista[j].data) <= NumData(lista[k].data)

\* C11 witness: a listing has returned two appointments of different dates
\* and has left out an appointment of the same patient.
C11_Witness ==
    \E p \in Procs :
        /\ ListaDevolvida(p)
        /\ Len(ret[p].val.lista) = 2
        /\ ret[p].val.lista[1].data # ret[p].val.lista[2].data
        /\ \E i \in DOMAIN consultas :
              /\ consultas[i].paciente_id = ret[p].val.paciente_id
              /\ \A k \in 1..2 : ret[p].val.lista[k].id # i

----------------------------------------------------------------------------

\* the exams that need no specialist, in lower case
SemEspecialista ==
    {<<"e","x","a","m","e"," ","d","e"," ","s","a","n","g","u","e">>,
     <<"r","a","i","o","-","x">>}

\* C12: a bookExam whose exam name is not, letter case aside, an exam that
\* needs no specialist ends at its first step with ValidationError; the
\* patients and the appointments are as they were.
C12_ExameForaDaLista ==
    [][\A p \in Procs :
        (/\ pc[p] = "idle"
         /\ pc'[p] # "idle"
         /\ call'[p].op = "agendar_exame_simples"
         /\ LowerStr(call'[p].nome_exame) \notin SemEspecialista)
        => /\ pc'[p] = "done"
           /\ ret'[p].kind = ValidationError
           /\ pacientes' = pacientes
           /\ consultas' = consultas]_vars

\* C12 witness: a bookExam was refused for its exam name although its
\* national ID is valid and no patient is stored under it.
C12_Witness ==
    \E p \in Procs :
        /\ Failed(p, ValidationError)
        /\ call[p].op = "agendar_exame_simples"
        /\ LowerStr(call[p].nome_exame) \notin SemEspecialista
        /\ CpfValido(call[p].cpf_paciente)
        /\ ComCpf(call[p].cpf_paciente) = {}

----------------------------------------------------------------------------
(* Relative dates: obter_data_por_termo_relativo *)

\* the calendar of datetime.date
Bissexto(y) == y % 4 = 0 /\ (y % 100 # 0 \/ y % 400 = 0)

DiasNoMes(y, m) ==
    IF m = 2 THEN (IF Bissexto(y) THEN 29 ELSE 28)
    ELSE IF m \in {4, 6, 9, 11} THEN 30 ELSE 31

RECURSIVE DiasAntesDoMes(_, _)
DiasAntesDoMes(y, m) == IF m = 1 THEN 0 ELSE DiasAntesDoMes(y, m - 1) + DiasNoMes(y, m - 1)

\* date.toordinal(): the number of the day, 0001-01-01 being day 1
ToOrdinal(d) ==
    (d[1] - 1) * 365 + (d[1] - 1) \div 4 - (d[1] - 1) \div 100 + (d[1] - 1) \div 400
    + DiasAntesDoMes(d[1], d[2]) + d[3]

\* date.weekday(): Monday is 0, Sunday is 6
Weekday(d) == (ToOrdinal(d) + 6) % 7

\* d + timedelta(days=n), n >= 0
RECURSIVE SomarDias(_, _)
SomarDias(d, n) ==
    IF n = 0 THEN d
    ELSE SomarDias(IF d[3] < DiasNoMes(d[1], d[2]) THEN <<d[1], d[2], d[3] + 1>>
                   ELSE IF d[2] < 12 THEN <<d[1], d[2] + 1, 1>>
                   ELSE <<d[1] + 1, 1, 1>>, n - 1)

\* "sub in s" on strings
Contem(sub, s) == \E k \in 1..(Len(s) - Len(sub) + 1) : SubSeq(s, k, k + Len(sub) - 1) = sub

Str_Hoje == <<"h","o","j","e">>
Str_Amanha == <<"a","m","a","n","h","a">>
Str_AmanhaTil == <<"a","m","a","n","h","a_til">>

\* services.py:214: the dict dias_semana, in its order of insertion
dias_semana ==
    <<<<<<"s","e","g","u","n","d","a">>, 0>>,
      <<<<"t","e","r","c","a">>, 1>>,
      <<<<"t","e","r","c_cedilha","a">>, 1>>,
      <<<<"q","u","a","r","t","a">>, 2>>,
      <<<<"q","u","i","n","t","a">>, 3>>,
      <<<<"s","e","x","t","a">>, 4>>,
      <<<<"s","a","b","a","d","o">>, 5>>,
      <<<<"s","a_agudo","b","a","d","o">>, 5>>,
      <<<<"d","o","m","i","n","g","o">>, 6>>>>

\* services.py:217-218 as they would be without the step from 0 to 7
DiasAFrente_SemAjuste(num_dia, hoje) == (num_dia - Weekday(hoje) + 7) % 7

\* services.py:217-218
DiasAFrente(num_dia, hoje) ==
    LET dias_a_frente == (num_dia - Weekday(hoje) + 7) % 7
    IN  IF dias_a_frente = 0 THEN 7 ELSE dias_a_frente

\* services.py:208-221: the date returned for termo_data on the day hoje
ObterData(termo_data, hoje) ==
    LET termo == LowerStr(termo_data)
        ks == {k \in 1..Len(dias_semana) : Contem(dias_semana[k][1], termo)}
    IN  IF Contem(Str_Hoje, termo) THEN hoje
        ELSE IF Contem(Str_Amanha, termo) \/ Contem(Str_AmanhaTil, termo)
             THEN SomarDias(hoje, 1)
        ELSE IF ks # {}
             THEN LET k == CHOOSE k \in ks : \A j \in ks : k <= j
                  IN  SomarDias(hoje, DiasAFrente(dias_semana[k][2], hoje))
        ELSE hoje

\* the terms of the calls
TermosData ==
    {<<"s","e","x","t","a">>,
     <<"S","E","X","T","A">>,
     <<"a"," ","s","e","x","t","a">>,
     <<"s","e","g","u","n","d","a">>,
     <<"t","e","r","c","a">>,
     <<"t","e","r","c_cedilha","a">>,
     <<"q","u","a","r","t","a">>,
     <<"q","u","i","n","t","a">>,
     <<"s","a","b","a","d","o">>,
     <<"s","a_agudo","b","a","d","o">>,
     <<"d","o","m","i","n","g","o">>,
     <<"s","e","g","u","n","d","a"," ","o","u"," ","s","e","x","t","a">>,
     <<"s","e","x","t","a"," ","o","u"," ","s","e","g","u","n","d","a">>,
     <<"h","o","j","e">>,
     <<"a","m","a","n","h","a">>,
     <<"a","m","a","n","h","a_til">>,
     <<"s","e","m","a","n","a">>,
     <<"s","e","x","t","a",","," ","h","o","j","e">>}

\* date.today() at the call: two weeks across the end of a year and the last
\* days of February in a leap year and in a common year
HojesData ==
    {SomarDias(<<2024, 12, 23>>, n) : n \in 0..13}
    \cup {<<2024, 2, 23>>, <<2024, 2, 28>>, <<2025, 2, 23>>, <<2025, 2, 28>>}

ObterDataPorTermoRelativo(p) ==
    \E termo_data \in TermosData, hoje \in HojesData :
        /\ Begin(p, [op |-> "obter_data_por_termo_relativo",
                     termo_data |-> termo_data, hoje |-> hoje])
        /\ Return(p, ObterData(termo_data, hoje))
        /\ UNCHANGED <<tipos_exame, pacientes, consultas, now>>

NextData ==
    \/ \E p \in Procs : ObterDataPorTermoRelativo(p)
    \/ \E p \in Procs : Responder(p)

SpecData == Init /\ [][NextData]_vars

\* the call of process p is a resolveRelativeDate call that has returned
DataDevolvida(p) ==
    /\ pc[p] = "done"
    /\ call[p].op = "obter_data_por_termo_relativo"
    /\ ret[p].kind = "ok"

\* the day of the week of the date d, counted from Monday 2024-01-01
DiaDaSemana(d) == (ToOrdinal(d) - ToOrdinal(<<2024, 1, 1>>)) % 7

\* the term has a weekday name and neither the 'today' nor the 'tomorrow'
\* literal; nums are the weekdays it names
SoDiaDaSemana(termo_data) ==
    /\ ~Contem(Str_Hoje, LowerStr(termo_data))
    /\ ~Contem(Str_Amanha, LowerStr(termo_data))
    /\ ~Contem(Str_AmanhaTil, LowerStr(termo_data))
    /\ \E k \in 1..Len(dias_semana) : Contem(dias_semana[k][1], LowerStr(termo_data))

DiasCitados(termo_data) ==
    {dias_semana[k][2] : k \in {j \in 1..Len(dias_semana) :
                                   Contem(dias_semana[j][1], LowerStr(termo_data))}}

\* the date r is the next day of the week num strictly after hoje
ProximoDepois(r, num, hoje) ==
    /\ DiaDaSemana(r) = num
    /\ ToOrdinal(r) - ToOrdinal(hoje) \in 1..7
    /\ DiaDaSemana(hoje) = num => ToOrdinal(r) - ToOrdinal(hoje) = 7

\* C13 as stated: for a term that has a weekday name and neither literal, the
\* date returned is the next occurrence strictly after today of every weekday
\* that the term names.
C13_CadaDiaCitado ==
    \A p \in Procs :
        (DataDevolvida(p) /\ SoDiaDaSemana(call[p].termo_data))
        => \A num \in DiasCitados(call[p].termo_data) :
              ProximoDepois(ret[p].val, num, call[p].hoje)

\* C13 amended: for a term that has a weekday name and neither literal, the
\* date returned is the next occurrence strictly after today (1 to 7 days
\* later, 7 when today is that weekday) of the first weekday, from Monday to
\* Sunday, that the term names.
C13_PrimeiroDiaCitado ==
    \A p \in Procs :
        (DataDevolvida(p) /\ SoDiaDaSemana(call[p].termo_data))
        => LET num == CHOOSE n \in DiasCitados(call[p].termo_data) :
                          \A m \in DiasCitados(call[p].termo_data) : n <= m
           IN  ProximoDepois(ret[p].val, num, call[p].hoje)

\* C13 witness: on a Monday a term that names Friday and Monday has been
\* resolved to the Monday seven days later, in the next year.
C13_Witness ==
    \E p \in Procs :
        /\ DataDevolvida(p)
        /\ SoDiaDaSemana(call[p].termo_data)
        /\ DiasCitados(call[p].termo_data) = {0, 4}
        /\ DiaDaSemana(call[p].hoje) = 0
        /\ ToOrdinal(ret[p].val) - ToOrdinal(call[p].hoje) = 7
        /\ ret[p].val[1] = call[p].hoje[1] + 1

----------------------------------------------------------------------------
(* Two callers that reschedule: the store holds two appointments of the    *)
(* same physician                                                          *)

ConsultaCorrida ==
    [ConsultaSeed(AGENDADA) EXCEPT !.id = 124, !.paciente_id = 102,
                                   !.hora_inicio = <<9, 30>>,
                                   !.observacoes = <<"Retorno">>]

InitCorrida ==
    /\ tipos_exame = TiposExameSeed
    /\ pacientes = PacientesSeed
    /\ consultas = (123 :> ConsultaSeed(AGENDADA)) @@ (124 :> ConsultaCorrida)
    /\ InitProcs({1, 2})

NextCorrida ==
    \/ \E p \in Procs : ReagendarConsulta(p)
    \/ \E p \in Procs : ReagConflito(p)
    \/ \E p \in Procs : ReagUpdate(p)
    \/ \E p \in Procs : ReagReadBack(p)
    \/ \E p \in Procs : Responder(p)
    \/ Tick

SpecCorrida == InitCorrida /\ [][NextCorrida]_vars

\* C14: the conflict check of a reschedule writes nothing and keeps no hold
\* on the slot, and the update that follows it is applied whatever the store
\* holds by then: the step from the update sets the date and the start time
\* of X to those of the call, also when another appointment of the physician
\* has taken them since the check.
C14_VerificaDepoisAtualiza ==
    [][\A p \in Procs :
        /\ (pc[p] = "reag_conflito" /\ pc'[p] # pc[p]) => consultas' = consultas
        /\ (pc[p] = "reag_update" /\ pc'[p] # pc[p])
           => /\ consultas'[call[p].consulta_id].data = call[p].data
              /\ consultas'[call[p].consulta_id].hora_inicio = call[p].hora_inicio
              /\ (consultas' # consultas => pc'[p] = "reag_read_back")]_vars

\* C14 witness: two reschedule calls on two appointments of one physician
\* have both passed the conflict check and both had their update applied, and
\* the two appointments now have the same date and start time.
C14_Witness ==
    \E p, q \in Procs :
        /\ p # q
        /\ pc[p] \in {"reag_read_back", "done"} /\ pc[q] \in {"reag_read_back", "done"}
        /\ call[p].op = "reagendar_consulta" /\ call[q].op = "reagendar_consulta"
        /\ ret[p].kind \in {"none", "ok"} /\ ret[q].kind \in {"none", "ok"}
        /\ call[p].consulta_id # call[q].consulta_id
        /\ <<call[p].data, call[p].hora_inicio>> = <<call[q].data, call[q].hora_inicio>>
        /\ \A x \in {call[p].consulta_id, call[q].consulta_id} :
              /\ consultas[x].data = call[p].data
              /\ consultas[x].hora_inicio = call[p].hora_inicio
              /\ consultas[x].medico_id = 42
        /\ <<loc[p].consulta_original.data, loc[p].consulta_original.hora_inicio>>
              # <<call[p].data, call[p].hora_inicio>>
        /\ <<loc[q].consulta_original.data, loc[q].consulta_original.hora_inicio>>
              # <<call[q].data, call[q].hora_inicio>>

----------------------------------------------------------------------------
(* Two callers that book *)

NextReserva ==
    \/ \E p \in Procs : AgendarExameSimples(p)
    \/ \E p \in Procs : AgendarConsultaComMedico(p)
    \/ \E p \in Procs : PacienteMaiorId(p)
    \/ \E p \in Procs : PacienteInsert(p)
    \/ \E p \in Procs : ExameFind(p)
    \/ \E p \in Procs : MotivoFind(p)
    \/ \E p \in Procs : ConsultaMaiorId(p)
    \/ \E p \in Procs : ConsultaInsert(p)
    \/ \E p \in Procs : ConsultaReadBack(p)

\* the stores of Init, with two callers
InitReserva == InitStore /\ InitProcs({1, 2})

\* each of the two callers makes one call
SpecReserva == InitReserva /\ [][NextReserva]_vars

\* the id that a collection with the ids S gives to its next document
ProximoId(S, primeiro) ==
    IF S = {} THEN primeiro ELSE (CHOOSE x \in S : \A y \in S : y <= x) + 1

\* the step adds to a collection with the documents antes, giving depois, at
\* most one document; the document it adds is stored under the id that
\* follows the largest one (or under primeiro), and no stored document is
\* replaced
SoAcrescenta(antes, depois, primeiro) ==
    /\ \A i \in DOMAIN antes : i \in DOMAIN depois /\ depois[i] = antes[i]
    /\ \A i \in DOMAIN depois \ DOMAIN antes :
          /\ i = ProximoId(DOMAIN antes, primeiro)
          /\ \A j \in DOMAIN antes : j < i

\* C15: every appointment a booking creates is stored under the largest
\* appointment id plus one, or 123 in an empty collection, and every patient
\* it creates under the largest patient id plus one, or 101; an insert never
\* takes the id of a stored document, so the ids of a collection are distinct
\* and each new one is greater than all of those stored before, also when the
\* steps of two bookings interleave.
C15_IdsSequenciais ==
    [][/\ SoAcrescenta(consultas, consultas', 123)
       /\ SoAcrescenta(pacientes, pacientes', 101)
       /\ \A i \in DOMAIN consultas' : consultas'[i].id = i]_vars

\* C15 witness: two bookings have read the same largest id of an empty
\* collection; one has stored its appointment as 123 and the other, which
\* computed 123 too, has been refused.
C15_Witness ==
    \E p, q \in Procs :
        /\ p # q
        /\ pc[p] \in {"consulta_read_back", "done"}
        /\ ret[p].kind \in {"none", "ok"}
        /\ loc[p].novo_id = 123
        /\ DOMAIN consultas = {123}
        /\ 101 \in DOMAIN pacientes
        /\ Failed(q, ConflictError)
        /\ loc[q].novo_id = 123

----------------------------------------------------------------------------

\* C16: a reschedule or a cancel that names an id under which no appointment
\* is stored ends at its first step with NotFoundError; the appointments and
\* the patients are as they were.
C16_IdDesconhecido ==
    [][\A p \in Procs :
        (/\ pc[p] = "idle"
         /\ pc'[p] # "idle"
         /\ call'[p].op \in {"reagendar_consulta", "cancelar_consulta"}
         /\ call'[p].consulta_id \notin DOMAIN consultas)
        => /\ pc'[p] = "done"
           /\ ret'[p].kind = NotFoundError
           /\ consultas' = consultas
           /\ pacientes' = pacientes]_vars

\* C16 witness: a reschedule has failed with NotFoundError on an id that is
\* not stored, in a store that holds another appointment.
C16_Witness ==
    \E p \in Procs :
        /\ Failed(p, NotFoundError)
        /\ call[p].op = "reagendar_consulta"
        /\ call[p].consulta_id \notin DOMAIN consultas
        /\ DOMAIN consultas # {}

\* C17: the update step of a reschedule that changes no stored record ends
\* the call with ConflictError; and the update step of a reschedule of X to
\* the date and start time that X has changes nothing and ends the call with
\* ConflictError.
C17_MesmoHorario ==
    [][\A p \in Procs :
        (pc[p] = "reag_update" /\ pc'[p] # pc[p])
        => /\ consultas' = consultas
              => (pc'[p] = "done" /\ ret'[p].kind = ConflictError)
           /\ (/\ consultas[call[p].consulta_id].data = call[p].data
               /\ consultas[call[p].consulta_id].hora_inicio = call[p].hora_inicio)
              => /\ consultas' = consultas
                 /\ pc'[p] = "done"
                 /\ ret'[p].kind = ConflictError]_vars

\* the stores antes and depois differ at most in the fields campos of the
\* appointment id
SoMuda(antes, depois, id, campos) ==
    /\ DOMAIN depois = DOMAIN antes
    /\ \A i \in DOMAIN antes :
          /\ DOMAIN depois[i] = DOMAIN antes[i]
          /\ \A f \in DOMAIN antes[i] :
                depois[i][f] # antes[i][f] => (i = id /\ f \in campos)

\* C18: a step of reschedule(X, d, t) changes nothing but the date, the
\* start time and the updated timestamp of X, and a step of cancel(X) nothing
\* but the status and the updated timestamp of X; neither changes a patient.
C18_SoOsCamposDaOperacao ==
    [][\A p \in Procs :
        (pc'[p] # pc[p] /\ pc'[p] # "idle")
        => /\ call'[p].op = "reagendar_consulta"
              => /\ pacientes' = pacientes
                 /\ SoMuda(consultas, consultas', call'[p].consulta_id,
                           {"data", "hora_inicio", "updated_at"})
           /\ call'[p].op = "cancelar_consulta"
              => /\ pacientes' = pacientes
                 /\ SoMuda(consultas, consultas', call'[p].consulta_id,
                           {"status", "updated_at"})]_vars

\* C18 witness: a cancel has succeeded on an appointment that was booked
\* with notes, in a store that holds another appointment.
C18_Witness ==
    \E p \in Procs :
        /\ pc[p] = "done"
        /\ ret[p].kind = "ok"
        /\ call[p].op = "cancelar_consulta"
        /\ ret[p].val.status = CANCELADA
        /\ ret[p].val.observacoes # <<>>
        /\ Cardinality(DOMAIN consultas) = 2

----------------------------------------------------------------------------
(* National IDs: listings called with well-formed and malformed CPFs *)

\* the digits and letters between the separators and the blanks of a CPF
NucleosCpf ==
    {CPF_Carlos,
     CPF_CarlosFmt,
     <<"1","1","1","2","2","2","3","3","3","4">>,
     <<"1","1","1","2","2","2","3","3","3","4","4","5">>,
     <<"1","1","1","2","2","2","3","3","3","4","^2">>,
     <<"1","1","1","2","2","2","3","3","3","4","x">>,
     <<"1","1","1"," ","2","2","2","3","3","3","4","4">>,
     <<>>}

CpfsValidacao ==
    {pre \o nucleo \o pos : pre \in {<<>>, <<" ">>}, nucleo \in NucleosCpf,
                           pos \in {<<>>, <<" ">>, <<"-">>}}

\* services.py:337 called with the CPFs of CpfsValidacao
VerMinhasConsultasCpf(p) ==
    \E cpf_paciente \in CpfsValidacao :
        /\ Begin(p, [op |-> "ver_minhas_consultas", nome_paciente |-> "Busca",
                     cpf_paciente |-> cpf_paciente])
        /\ PacienteFindOne(p, "ver_minhas_consultas", cpf_paciente, LocInit)

NextCpf ==
    \/ \E p \in Procs : VerMinhasConsultasCpf(p)
    \/ \E p \in Procs : PacienteMaiorId(p)
    \/ \E p \in Procs : PacienteInsert(p)
    \/ \E p \in Procs : VerFind(p)
    \/ \E p \in Procs : Responder(p)

SpecCpf == Init /\ [][NextCpf]_vars

\* the national ID, its '.' and '-' removed and the blanks around it
\* stripped, is exactly 11 decimal digits
OnzeDecimais(cpf) ==
    /\ Len(LimparCpf(cpf)) = 11
    /\ \A i \in 1..Len(LimparCpf(cpf)) :
          LimparCpf(cpf)[i] \in {"0", "1", "2", "3", "4", "5", "6", "7", "8", "9"}

\* C19: a call that resolves a patient from a national ID that is not
\* exactly 11 decimal digits ends at its first step with ValidationError, and
\* no step of it inserts or changes a patient or an appointment.
C19_CpfMalformado ==
    [][\A p \in Procs :
        (/\ pc'[p] # pc[p]
         /\ pc'[p] # "idle"
         /\ call'[p].op \in ResolvePaciente
         /\ ~OnzeDecimais(call'[p].cpf_paciente))
        => /\ pc'[p] = "done"
           /\ ret'[p].kind = ValidationError
           /\ pacientes' = pacientes
           /\ consultas' = consultas]_vars

----------------------------------------------------------------------------

\* the calls that book
Reservas == {"agendar_exame_simples", "agendar_consulta_com_medico"}

\* the running call of process p has inserted a patient: it found none under
\* the national ID and has the id of the one it stored
InseriuPaciente(p) == loc[p].cpf_limpo # None /\ loc[p].paciente_id # NoneId

\* the running call of process p has inserted its appointment and has still
\* to read it back
InseriuConsulta(p) == pc[p] = "consulta_read_back"

\* C20: the step that ends a booking in an error is taken by a call that has
\* inserted no patient and no appointment, and it writes nothing itself: a
\* booking that fails leaves the patients and the appointments as they were
\* before the call.
C20_ErroSemEscrita ==
    [][\A p \in Procs :
        (/\ pc[p] # "done"
         /\ pc'[p] = "done"
         /\ call'[p].op \in Reservas
         /\ ret'[p].kind # "ok")
        => /\ ~InseriuPaciente(p)
           /\ ~InseriuConsulta(p)
           /\ pacientes' = pacientes
           /\ consultas' = consultas]_vars

----------------------------------------------------------------------------
(* The tool boundary: server.py *)

\* the exceptions of the service that are ValueErrors; the wrappers catch
\* these and no others
ValueErrors == {ValidationError, NotFoundError, ConflictError, ModelValidationError}

\* server.py: the status_code of the HTTPException in the except clause of
\* the wrapper of each tool
StatusDaFerramenta(op) ==
    CASE op = "verificar_disponibilidade_medico" -> 400
      [] op = "agendar_exame_simples" -> 400
      [] op = "agendar_consulta_com_medico" -> 400
      [] op = "ver_minhas_consultas" -> 404
      [] op = "reagendar_consulta" -> 400
      [] op = "cancelar_consulta" -> 404

\* what the wrapper of the finished call of process p hands to the caller:
\* the result, the HTTPException of its except clause, or the exception that
\* the clause does not catch
Resposta(p) ==
    IF ret[p].kind = "ok" THEN "ok"
    ELSE IF ret[p].kind \in ValueErrors /\ call[p].op # "obter_data_por_termo_relativo"
         THEN StatusDaFerramenta(call[p].op)
         ELSE ret[p].kind

\* C21: every call that has ended with ValidationError or ConflictError is
\* answered with status 400, and every call that has ended with NotFoundError
\* with status 404, whatever the tool.
C21_StatusPeloTipo ==
    \A p \in Procs :
        pc[p] = "done" =>
            /\ ret[p].kind \in {ValidationError, ConflictError} => Resposta(p) = 400
            /\ ret[p].kind = NotFoundError => Resposta(p) = 404

----------------------------------------------------------------------------

\* C22: the insert step of a booking ends the call with ConflictError only
\* when the booking names a physician and an appointment of that physician at
\* the date and start time of the booking is stored; a booking without a
\* physician, or for a physician, date and time that no stored appointment
\* has, is never refused with ConflictError, however the steps of two
\* bookings interleave.
C22_ConflitoSoNoMesmoHorario ==
    [][\A p \in Procs :
        (/\ pc[p] = "consulta_insert"
         /\ pc'[p] = "done"
         /\ ret'[p].kind = ConflictError)
        => /\ Truthy(loc[p].medico_id)
           /\ \E i \in DOMAIN consultas :
                 /\ consultas[i].medico_id = loc[p].medico_id
                 /\ consultas[i].data = call'[p].data
                 /\ consultas[i].hora_inicio = call'[p].hora_inicio]_vars

----------------------------------------------------------------------------

\* freeSlots(medico_id, data), computed on the store as it is, lists a slot
\* that starts at hora
SlotListado(medico_id, data, hora) ==
    \E k \in 1..Len(SlotsLivres(medico_id, data)) :
        SlotsLivres(medico_id, data)[k].hora_inicio = hora

----------------------------------------------------------------------------
(* Two callers that resolve patients: bookings and listings *)

NextPacientes ==
    \/ \E p \in Procs : AgendarExameSimples(p)
    \/ \E p \in Procs : AgendarConsultaComMedico(p)
    \/ \E p \in Procs : VerMinhasConsultas(p)
    \/ \E p \in Procs : PacienteMaiorId(p)
    \/ \E p \in Procs : PacienteInsert(p)
    \/ \E p \in Procs : ExameFind(p)
    \/ \E p \in Procs : MotivoFind(p)
    \/ \E p \in Procs : ConsultaMaiorId(p)
    \/ \E p \in Procs : ConsultaInsert(p)
    \/ \E p \in Procs : ConsultaReadBack(p)
    \/ \E p \in Procs : VerFind(p)

\* each of the two callers makes one call
SpecPacientes == InitReserva /\ [][NextPacientes]_vars

\* C24: in every store reached by bookings and listings, however their steps
\* interleave, no two patients have the same normalized national ID; and no
\* step removes a patient or changes the id, the name or the national ID of
\* a stored patient.
C24_PacientesUnicosEEstaveis ==
    /\ [](\A i, j \in DOMAIN pacientes :
            i # j => LimparCpf(pacientes[i].cpf) # LimparCpf(pacientes[j].cpf))
    /\ [][\A i \in DOMAIN pacientes :
            /\ i \in DOMAIN pacientes'
            /\ pacientes'[i].nome = pacientes[i].nome
            /\ pacientes'[i].cpf = pacientes[i].cpf
            /\ DOMAIN pacientes'[i] = {"nome", "cpf"}]_vars

\* C24 witness: two calls, a listing among them, looked up the same national
\* ID while no patient had it; one has stored the patient and the insert of
\* the other has been refused by the store.
C24_Witness ==
    \E p, q \in Procs :
        /\ p # q
        /\ call[p].op = "ver_minhas_consultas"
        /\ call[q].op \in Reservas
        /\ LimparCpf(call[p].cpf_paciente) = LimparCpf(call[q].cpf_paciente)
        /\ \E x \in {p, q}, y \in {p, q} :
              /\ x # y
              /\ InseriuPaciente(x)
              /\ pacientes[loc[x].paciente_id].cpf = LimparCpf(call[x].cpf_paciente)
              /\ Failed(y, DuplicateKeyError)
              /\ loc[y].cpf_limpo = loc[x].cpf_limpo
              /\ loc[y].novo_id # loc[x].novo_id

----------------------------------------------------------------------------

\* C25: a step that changes the status of an appointment is taken on an
\* appointment that is SCHEDULED, and an appointment that is COMPLETED is
\* still COMPLETED after every step of a cancel and of a reschedule.
C25_ConcluidaPermanece ==
    [][\A i \in DOMAIN consultas :
        /\ i \in DOMAIN consultas'
        /\ consultas'[i].status # consultas[i].status => consultas[i].status = AGENDADA
        /\ consultas[i].status = CONCLUIDA => consultas'[i].status = CONCLUIDA]_vars

----------------------------------------------------------------------------

\* the calls that only read appointments
Leituras == {"ver_minhas_consultas", "verificar_disponibilidade_medico"}

====
